---- MODULE Spec2Model ----
(***************************************************************************)
(* Model of configsettings.py: the three configuration dataclasses        *)
(* (FirebaseConfig, TradingConfig, APIConfig), the TradingMode enum and    *)
(* the aggregate SentimentTradingConfig.__init__ that builds them from     *)
(* the process environment.                                                *)
(*                                                                         *)
(* Python strings are tuples of one-character strings, so that float(),    *)
(* int() and the enum lookup are computed from the characters.  Python     *)
(* floats are records [k, v]: k is "fin", "nan", "inf" or "-inf" and v is  *)
(* the value in hundredths for a finite float (0 otherwise).               *)
(***************************************************************************)
EXTENDS Integers, Sequences, FiniteSets, TLC

VARIABLES
    env,      \* os.environ: a dict, here a function whose DOMAIN is the set keys
    fs,       \* the filesystem: the set of paths for which os.path.exists is True
    pc,       \* position inside SentimentTradingConfig.__init__, or "caller"
    self,     \* attributes assigned so far on the aggregate under construction
    called,   \* the blocks of __init__ that have run, in order
    err,      \* the exception that ended __init__, "none" while none was raised
    returned, \* TRUE once SentimentTradingConfig() handed an object to its caller
    obj,      \* a configuration object a caller built directly, NoObject before
    res       \* the last call on obj: its name, what it returned, what it raised

vars == <<env, fs, pc, self, called, err, returned, obj, res>>

-----------------------------------------------------------------------------
(* Bounds of the model *)

\* how many environment variables are set (the others take their defaults)
MaxEnvVars == 3

-----------------------------------------------------------------------------
(* Python values *)

\* None: a tuple no string equals, since a string's elements are single characters
None == <<"None">>

\* no object: what a name holds before a constructor returned, or after it raised
NoObject == [cls |-> "None"]

Digits == {"0", "1", "2", "3", "4", "5", "6", "7", "8", "9"}

DigitVal(c) ==
    CASE c = "0" -> 0 [] c = "1" -> 1 [] c = "2" -> 2 [] c = "3" -> 3
      [] c = "4" -> 4 [] c = "5" -> 5 [] c = "6" -> 6 [] c = "7" -> 7
      [] c = "8" -> 8 [] c = "9" -> 9

AllDigits(s) == \A i \in 1..Len(s) : s[i] \in Digits

RECURSIVE DecVal(_)
\* the number a string of decimal digits denotes
DecVal(s) ==
    IF s = <<>> THEN 0
    ELSE 10 * DecVal(SubSeq(s, 1, Len(s) - 1)) + DigitVal(s[Len(s)])

Fin(n) == [k |-> "fin", v |-> n]
NaN == [k |-> "nan", v |-> 0]
PosInf == [k |-> "inf", v |-> 0]
NegInf == [k |-> "-inf", v |-> 0]
\* what float() and int() raise on a malformed string
Invalid == [k |-> "ValueError", v |-> 0]

\* x <= 0 on Python floats: every comparison with nan is False
LeZero(x) ==
    CASE x.k = "fin" -> x.v <= 0
      [] x.k = "-inf" -> TRUE
      [] OTHER -> FALSE

\* x >= 1 on Python floats (1.0 is 100 hundredths)
GeOne(x) ==
    CASE x.k = "fin" -> x.v >= 100
      [] x.k = "inf" -> TRUE
      [] OTHER -> FALSE

Negate(x) ==
    CASE x.k = "fin" -> Fin(0 - x.v)
      [] x.k = "inf" -> NegInf
      [] x.k = "-inf" -> PosInf
      [] OTHER -> x

\* the fraction digits of a decimal literal, in hundredths (at most two digits)
FracVal(s) ==
    CASE Len(s) = 0 -> 0
      [] Len(s) = 1 -> 10 * DigitVal(s[1])
      [] OTHER -> 10 * DigitVal(s[1]) + DigitVal(s[2])

PointAt(s) == {i \in 1..Len(s) : s[i] = "."}

\* float() of an unsigned literal: nan, inf, digits, digits.digits, digits., .digits
UnsignedFloat(s) ==
    IF s = <<"n", "a", "n">> THEN NaN
    ELSE IF s = <<"i", "n", "f">> THEN PosInf
    ELSE IF s # <<>> /\ AllDigits(s) THEN Fin(100 * DecVal(s))
    ELSE IF Cardinality(PointAt(s)) = 1 THEN
        LET p == CHOOSE i \in PointAt(s) : TRUE
            whole == SubSeq(s, 1, p - 1)
            frac == SubSeq(s, p + 1, Len(s))
        IN  IF AllDigits(whole) /\ AllDigits(frac) /\ Len(whole) + Len(frac) > 0
                /\ Len(frac) <= 2
            THEN Fin(100 * DecVal(whole) + FracVal(frac))
            ELSE Invalid
    ELSE Invalid

\* float(s) for a str s
float(s) ==
    IF s # <<>> /\ s[1] = "-" THEN Negate(UnsignedFloat(Tail(s)))
    ELSE IF s # <<>> /\ s[1] = "+" THEN UnsignedFloat(Tail(s))
    ELSE UnsignedFloat(s)

\* int(s) for a str s: an optional sign and decimal digits, nothing else
int(s) ==
    LET body == IF s # <<>> /\ s[1] \in {"-", "+"} THEN Tail(s) ELSE s
    IN  IF body # <<>> /\ AllDigits(body)
        THEN Fin(IF s[1] = "-" THEN 0 - DecVal(body) ELSE DecVal(body))
        ELSE Invalid

\* bool(x) for an Optional[str]: None and the empty string are falsy
bool(x) == x # None /\ x # <<>>

-----------------------------------------------------------------------------
(* class TradingMode(Enum) *)

\* the members of the enum: name |-> value
TradingModeMembers ==
    [n \in {<<"P", "A", "P", "E", "R">>, <<"L", "I", "V", "E">>,
            <<"B", "A", "C", "K", "T", "E", "S", "T">>} |->
        CASE n = <<"P", "A", "P", "E", "R">> -> <<"p", "a", "p", "e", "r">>
          [] n = <<"L", "I", "V", "E">> -> <<"l", "i", "v", "e">>
          [] OTHER -> <<"b", "a", "c", "k", "t", "e", "s", "t">>]

\* TradingMode[name] finds the member by value instead of by name
TradingModeByValue(name) ==
    IF \E n \in DOMAIN TradingModeMembers : TradingModeMembers[n] = name
    THEN [k |-> "ok", member |-> CHOOSE n \in DOMAIN TradingModeMembers :
                                     TradingModeMembers[n] = name]
    ELSE [k |-> "KeyError", member |-> None]

\* TradingMode[name]: the member of that exact name, KeyError when there is none
TradingModeLookup(name) ==
    IF name \in DOMAIN TradingModeMembers
    THEN [k |-> "ok", member |-> name]
    ELSE [k |-> "KeyError", member |-> None]

-----------------------------------------------------------------------------
(* Exceptions, named by what the message says *)

MissingCredentialFile == "FileNotFoundError: Firebase credentials not found"
EmptyProjectId == "ValueError: Firebase project_id cannot be empty"
UnknownMode == "KeyError: no such TradingMode"
InvalidNumericValue == "ValueError: invalid literal"
OutOfRangeStopLoss == "ValueError: stop_loss_pct must be between 0 and 1"
NonPositiveTakeProfit == "ValueError: take_profit_pct must be positive"
NonPositivePositionSize == "ValueError: max_position_size must be positive"
MissingAttribute == "AttributeError: no attribute 'enabled'"

-----------------------------------------------------------------------------
(* @dataclass FirebaseConfig *)

\* the default of the collection_name field: "sentiment_trading"
DefaultCollectionName ==
    <<"s", "e", "n", "t", "i", "m", "e", "n", "t", "_",
      "t", "r", "a", "d", "i", "n", "g">>

\* FirebaseConfig.__post_init__ with the two checks in the other order
PostInitProjectIdFirst(o, files) ==
    IF o.project_id = <<>> THEN EmptyProjectId
    ELSE IF o.credentials_path \notin files THEN MissingCredentialFile
    ELSE "none"

\* FirebaseConfig.__post_init__: what it raises on the object o, "none" if nothing
FirebasePostInit(o, files) ==
    IF o.credentials_path \notin files THEN MissingCredentialFile
    ELSE IF o.project_id = <<>> THEN EmptyProjectId
    ELSE "none"

\* the generated FirebaseConfig.__init__ drops an argument: path stored as project
FirebaseFieldsSwapped(project_id, credentials_path, collection_name) ==
    [cls |-> "FirebaseConfig", project_id |-> credentials_path,
     credentials_path |-> credentials_path, collection_name |-> collection_name]

\* the generated FirebaseConfig.__init__: the fields are the arguments
FirebaseFields(project_id, credentials_path, collection_name) ==
    [cls |-> "FirebaseConfig", project_id |-> project_id,
     credentials_path |-> credentials_path, collection_name |-> collection_name]

\* FirebaseConfig(project_id, credentials_path, collection_name) on filesystem files
FirebaseConfig(project_id, credentials_path, collection_name, files) ==
    LET o == FirebaseFields(project_id, credentials_path, collection_name)
        e == FirebasePostInit(o, files)
    IN  [raised |-> e, obj |-> IF e = "none" THEN o ELSE NoObject]

-----------------------------------------------------------------------------
(* @dataclass TradingConfig *)

\* TradingConfig.validate with strict comparisons on the stop-loss bounds
ValidateStrictBounds(o) ==
    IF (o.stop_loss_pct.k = "fin" /\ o.stop_loss_pct.v < 0)
       \/ (o.stop_loss_pct.k = "fin" /\ o.stop_loss_pct.v > 100)
       \/ o.stop_loss_pct.k \in {"inf", "-inf"}
    THEN OutOfRangeStopLoss
    ELSE IF LeZero(o.take_profit_pct) THEN NonPositiveTakeProfit
    ELSE IF LeZero(o.max_position_size) THEN NonPositivePositionSize
    ELSE "none"

\* TradingConfig.validate: what it raises on the object o, "none" when it returns
TradingValidate(o) ==
    IF LeZero(o.stop_loss_pct) \/ GeOne(o.stop_loss_pct) THEN OutOfRangeStopLoss
    ELSE IF LeZero(o.take_profit_pct) THEN NonPositiveTakeProfit
    ELSE IF LeZero(o.max_position_size) THEN NonPositivePositionSize
    ELSE "none"

\* the fields of a TradingConfig: the arguments, unchecked
TradingFields(mode, max_position_size, stop_loss_pct, take_profit_pct, sentiment_threshold, cooloff_period) ==
    [cls |-> "TradingConfig", mode |-> mode,
     max_position_size |-> max_position_size, stop_loss_pct |-> stop_loss_pct,
     take_profit_pct |-> take_profit_pct,
     sentiment_threshold |-> sentiment_threshold,
     cooloff_period |-> cooloff_period]

\* a TradingConfig constructor that runs validate() on the new object
TradingConfigValidating(mode, max_position_size, stop_loss_pct, take_profit_pct, sentiment_threshold, cooloff_period) ==
    LET o == TradingFields(mode, max_position_size, stop_loss_pct,
                           take_profit_pct, sentiment_threshold, cooloff_period)
        e == TradingValidate(o)
    IN  [raised |-> e, obj |-> IF e = "none" THEN o ELSE NoObject]

\* TradingConfig(...): the generated __init__ stores the arguments; the class has
\* no __post_init__, so nothing is checked and nothing is raised
TradingConfig(mode, max_position_size, stop_loss_pct, take_profit_pct, sentiment_threshold, cooloff_period) ==
    [raised |-> "none",
     obj |-> TradingFields(mode, max_position_size, stop_loss_pct,
                           take_profit_pct, sentiment_threshold, cooloff_period)]

-----------------------------------------------------------------------------
(* @dataclass APIConfig *)

\* APIConfig(...): the generated __init__ stores the arguments
APIConfig(twitter_bearer_token, news_api_key, rate_limit_per_minute, retry_attempts, timeout_seconds) ==
    [raised |-> "none",
     obj |-> [cls |-> "APIConfig", twitter_bearer_token |-> twitter_bearer_token,
              news_api_key |-> news_api_key,
              rate_limit_per_minute |-> rate_limit_per_minute,
              retry_attempts |-> retry_attempts,
              timeout_seconds |-> timeout_seconds]]

\* has_twitter_access testing only that the token is set
TwitterTokenIsSet(o) == o.twitter_bearer_token # None

\* the has_twitter_access property
has_twitter_access(o) == bool(o.twitter_bearer_token)

\* the has_news_access property
has_news_access(o) == bool(o.news_api_key)

-----------------------------------------------------------------------------
(* The environment and the filesystem *)

\* "./firebase_credentials.json"
DefaultCredentialsPath ==
    <<".", "/", "f", "i", "r", "e", "b", "a", "s", "e", "_", "c", "r", "e", "d",
      "e", "n", "t", "i", "a", "l", "s", ".", "j", "s", "o", "n">>

OtherPath == <<"a", ".", "j", "s", "o", "n">>

Paths == {DefaultCredentialsPath, OtherPath}

PAPER == <<"P", "A", "P", "E", "R">>
LIVE == <<"L", "I", "V", "E">>
BACKTEST == <<"B", "A", "C", "K", "T", "E", "S", "T">>

\* the values the model gives each environment variable when it is set
EnvValues ==
    [FIREBASE_PROJECT_ID |-> {<<>>, <<"p">>},
     FIREBASE_CREDENTIALS_PATH |-> {OtherPath},
     TRADING_MODE |-> {PAPER, LIVE, BACKTEST, <<"l", "i", "v", "e">>,
                       <<"F", "O", "O">>},
     MAX_POSITION_SIZE |-> {<<"0">>, <<"-", "1">>, <<"x">>},
     STOP_LOSS_PCT |-> {<<"0">>, <<"1">>, <<"0", ".", "5">>, <<"1", ".", "5">>,
                        <<"-", "0", ".", "1">>, <<"n", "a", "n">>},
     TAKE_PROFIT_PCT |-> {<<"0">>, <<"-", "1">>, <<"n", "a", "n">>},
     SENTIMENT_THRESHOLD |-> {<<"2">>},
     COOLOFF_PERIOD |-> {<<"0">>, <<"1", ".", "5">>},
     TWITTER_BEARER_TOKEN |-> {<<>>, <<"t">>},
     NEWS_API_KEY |-> {<<>>, <<"k">>},
     RATE_LIMIT_PER_MINUTE |-> {<<"x">>},
     RETRY_ATTEMPTS |-> {<<"-", "1">>},
     TIMEOUT_SECONDS |-> {<<"n", "a", "n">>}]

EnvKeys == DOMAIN EnvValues

\* os.getenv(key, default); os.getenv(key) is getenv(e, key, None)
getenv(e, key, default) == IF key \in DOMAIN e THEN e[key] ELSE default

-----------------------------------------------------------------------------
(* SentimentTradingConfig.__init__, block by block *)

\* self.firebase = FirebaseConfig(project_id=..., credentials_path=...)
FirebaseFromEnv(e, files) ==
    FirebaseConfig(getenv(e, "FIREBASE_PROJECT_ID", <<>>),
                   getenv(e, "FIREBASE_CREDENTIALS_PATH", DefaultCredentialsPath),
                   DefaultCollectionName, files)

\* the number strings the trading block reads, each with the default written in
\* its os.getenv call
MaxPositionSizeInput(e) == getenv(e, "MAX_POSITION_SIZE", <<"1", "0", "0", "0", "0">>)
StopLossInput(e) == getenv(e, "STOP_LOSS_PCT", <<"0", ".", "0", "2">>)
TakeProfitInput(e) == getenv(e, "TAKE_PROFIT_PCT", <<"0", ".", "0", "5">>)
ThresholdInput(e) == getenv(e, "SENTIMENT_THRESHOLD", <<"0", ".", "7">>)
CooloffInput(e) == getenv(e, "COOLOFF_PERIOD", <<"3", "0", "0">>)

\* self.trading = TradingConfig(mode=..., ...): the keyword arguments are evaluated
\* in the order written and the first one that raises ends the statement
TradingFromEnv(e) ==
    LET mode == TradingModeLookup(getenv(e, "TRADING_MODE", PAPER))
        mps == float(MaxPositionSizeInput(e))
        sl == float(StopLossInput(e))
        tp == float(TakeProfitInput(e))
        st == float(ThresholdInput(e))
        cp == int(CooloffInput(e))
    IN  IF mode.k # "ok" THEN [raised |-> UnknownMode, obj |-> NoObject]
        ELSE IF Invalid \in {mps, sl, tp, st, cp}
        THEN [raised |-> InvalidNumericValue, obj |-> NoObject]
        ELSE TradingConfig(mode.member, mps, sl, tp, st, cp.v)

\* self.api = APIConfig(twitter_bearer_token=..., ...)
APIFromEnv(e) ==
    LET rl == int(getenv(e, "RATE_LIMIT_PER_MINUTE", <<"6", "0">>))
        ra == int(getenv(e, "RETRY_ATTEMPTS", <<"3">>))
        ts == int(getenv(e, "TIMEOUT_SECONDS", <<"3", "0">>))
    IN  IF Invalid \in {rl, ra, ts}
        THEN [raised |-> InvalidNumericValue, obj |-> NoObject]
        ELSE APIConfig(getenv(e, "TWITTER_BEARER_TOKEN", None),
                       getenv(e, "NEWS_API_KEY", None), rl.v, ra.v, ts.v)

\* the statements of __init__ with the trading and API blocks exchanged
BlockAfterSwapped(block) ==
    CASE block = "firebase" -> "api"
      [] block = "api" -> "trading"
      [] block = "trading" -> "sources"

\* the block of __init__ that follows a block that raised nothing
BlockAfter(block) ==
    CASE block = "firebase" -> "trading"
      [] block = "trading" -> "api"
      [] block = "api" -> "sources"

\* one block `self.attr = <constructor call>` whose outcome is r: the attribute is
\* assigned and control goes on, or the exception leaves __init__
BlockDone(block, attr, r) ==
    /\ called' = Append(called, block)
    /\ IF r.raised = "none"
       THEN /\ self' = (attr :> r.obj) @@ self
            /\ pc' = BlockAfter(block)
            /\ err' = err
       ELSE /\ self' = self
            /\ pc' = "raised"
            /\ err' = r.raised
    /\ UNCHANGED <<env, fs, returned, obj, res>>

\* load_dotenv() / the ambient environment: one more variable is set before the call
SetEnv(key, value) ==
    /\ pc = "caller"
    /\ key \notin DOMAIN env
    /\ Cardinality(DOMAIN env) < MaxEnvVars
    /\ env' = (key :> value) @@ env
    /\ UNCHANGED <<fs, pc, self, called, err, returned, obj, res>>

\* the caller evaluates SentimentTradingConfig()
Call ==
    /\ pc = "caller"
    /\ pc' = "firebase"
    /\ UNCHANGED <<env, fs, self, called, err, returned, obj, res>>

InitFirebase ==
    /\ pc = "firebase"
    /\ BlockDone("firebase", "firebase", FirebaseFromEnv(env, fs))

InitTrading ==
    /\ pc = "trading"
    /\ BlockDone("trading", "trading", TradingFromEnv(env))

InitAPI ==
    /\ pc = "api"
    /\ BlockDone("api", "api", APIFromEnv(env))

\* the last statement, `self.enabled`: reading an attribute nothing has assigned
\* raises AttributeError; otherwise __init__ ends and the object is returned
InitSources ==
    /\ pc = "sources"
    /\ called' = Append(called, "sources")
    /\ IF "enabled" \in DOMAIN self
       THEN pc' = "returned" /\ returned' = TRUE /\ err' = err
       ELSE pc' = "raised" /\ returned' = returned /\ err' = MissingAttribute
    /\ UNCHANGED <<env, fs, self, obj, res>>

NoRes == [op |-> "none", returned |-> "none", raised |-> "none"]

\* an empty dict / an object with no attribute yet
Empty == [x \in {} |-> None]

Init ==
    /\ env = Empty
    /\ fs \in SUBSET Paths
    /\ pc = "caller"
    /\ self = Empty
    /\ called = <<>>
    /\ err = "none"
    /\ returned = FALSE
    /\ obj = NoObject
    /\ res = NoRes

Next ==
    \/ \E key \in EnvKeys : \E value \in EnvValues[key] : SetEnv(key, value)
    \/ Call
    \/ InitFirebase
    \/ InitTrading
    \/ InitAPI
    \/ InitSources

Spec == Init /\ [][Next]_vars

-----------------------------------------------------------------------------
(* A caller that builds one configuration object directly and then uses it *)

ProjectIds == {<<>>, <<"p">>}

\* collection_name as the caller passes it; None: the argument is not supplied
CollectionArgs == {None, <<"c">>}

ModeValues == DOMAIN TradingModeMembers

\* 10000.0, the default, is 1000000 hundredths
PositionSizeValues == {Fin(-100), Fin(0), Fin(1000000), NaN}

\* 0.02, the default, is 2 hundredths
StopLossValues ==
    {Fin(-10), Fin(0), Fin(2), Fin(50), Fin(100), Fin(150), NaN, PosInf, NegInf}

\* 0.05, the default, is 5 hundredths
TakeProfitValues == {Fin(-100), Fin(0), Fin(5), NaN}

\* 0.7, the default, is 70 hundredths
ThresholdValues == {Fin(70), Fin(200)}

CooloffValues == {300, -1}

TwitterTokens == {None, <<>>, <<"t">>}

NewsKeys == {None, <<>>, <<"k">>}

\* the values the caller may assign to a field of an object of class cls
FieldValues(cls) ==
    CASE cls = "FirebaseConfig" ->
            [project_id |-> ProjectIds, credentials_path |-> Paths,
             collection_name |-> {DefaultCollectionName, <<"c">>}]
      [] cls = "TradingConfig" ->
            [mode |-> ModeValues, max_position_size |-> PositionSizeValues,
             stop_loss_pct |-> StopLossValues, take_profit_pct |-> TakeProfitValues,
             sentiment_threshold |-> ThresholdValues,
             cooloff_period |-> CooloffValues]
      [] cls = "APIConfig" ->
            [twitter_bearer_token |-> TwitterTokens, news_api_key |-> NewsKeys,
             rate_limit_per_minute |-> {60}, retry_attempts |-> {3},
             timeout_seconds |-> {30}]

BoolStr(b) == IF b THEN "True" ELSE "False"

\* the outcome r of a direct constructor call named op
Constructed(op, r) ==
    /\ obj = NoObject
    /\ res = NoRes
    /\ obj' = r.obj
    /\ res' = [op |-> op,
               returned |-> IF r.raised = "none" THEN "object" ELSE "none",
               raised |-> r.raised]
    /\ UNCHANGED <<env, fs, pc, self, called, err, returned>>

\* FirebaseConfig(project_id, credentials_path[, collection_name])
NewFirebaseConfig(project_id, credentials_path, collection_arg) ==
    Constructed("FirebaseConfig",
                FirebaseConfig(project_id, credentials_path,
                               IF collection_arg = None
                               THEN DefaultCollectionName ELSE collection_arg,
                               fs))

\* TradingConfig(mode, max_position_size, stop_loss_pct, take_profit_pct, ...)
NewTradingConfig(mode, mps, sl, tp, st, cp) ==
    Constructed("TradingConfig",
                TradingConfig(mode, mps, sl, tp, st, cp))

\* APIConfig(twitter_bearer_token, news_api_key)
NewAPIConfig(twitter, news) ==
    Constructed("APIConfig",
                APIConfig(twitter, news, 60, 3, 30))

\* a validate() that also clamps the stop loss into range
ValidateClamping ==
    /\ obj # NoObject
    /\ obj.cls = "TradingConfig"
    /\ obj' = [obj EXCEPT !.stop_loss_pct = Fin(2)]
    /\ res' = [op |-> "validate", returned |-> "None", raised |-> "none"]
    /\ UNCHANGED <<env, fs, pc, self, called, err, returned>>

\* obj.validate()
Validate ==
    /\ obj # NoObject
    /\ obj.cls = "TradingConfig"
    /\ res' = [op |-> "validate",
               returned |-> IF TradingValidate(obj) = "none" THEN "None" ELSE "none",
               raised |-> TradingValidate(obj)]
    /\ UNCHANGED <<env, fs, pc, self, called, err, returned, obj>>

\* obj.has_twitter_access
HasTwitterAccess ==
    /\ obj # NoObject
    /\ obj.cls = "APIConfig"
    /\ res' = [op |-> "has_twitter_access",
               returned |-> BoolStr(has_twitter_access(obj)), raised |-> "none"]
    /\ UNCHANGED <<env, fs, pc, self, called, err, returned, obj>>

\* obj.has_news_access
HasNewsAccess ==
    /\ obj # NoObject
    /\ obj.cls = "APIConfig"
    /\ res' = [op |-> "has_news_access",
               returned |-> BoolStr(has_news_access(obj)), raised |-> "none"]
    /\ UNCHANGED <<env, fs, pc, self, called, err, returned, obj>>

\* obj.field = value: the dataclasses are not frozen, so the assignment succeeds
SetAttr(field, value) ==
    /\ obj # NoObject
    /\ field \in DOMAIN FieldValues(obj.cls)
    /\ value \in FieldValues(obj.cls)[field]
    /\ obj' = [obj EXCEPT ![field] = value]
    /\ res' = [op |-> "setattr", returned |-> "none", raised |-> "none"]
    /\ UNCHANGED <<env, fs, pc, self, called, err, returned>>

FieldNames ==
    {"project_id", "credentials_path", "collection_name", "mode",
     "max_position_size", "stop_loss_pct", "take_profit_pct",
     "sentiment_threshold", "cooloff_period", "twitter_bearer_token",
     "news_api_key", "rate_limit_per_minute", "retry_attempts", "timeout_seconds"}

NextDirect ==
    \/ /\ obj = NoObject
       /\ \E p \in ProjectIds, c \in Paths, n \in CollectionArgs :
             NewFirebaseConfig(p, c, n)
    \/ /\ obj = NoObject
       /\ \E m \in ModeValues, mps \in PositionSizeValues, sl \in StopLossValues,
             tp \in TakeProfitValues, st \in ThresholdValues, cp \in CooloffValues :
             NewTradingConfig(m, mps, sl, tp, st, cp)
    \/ /\ obj = NoObject
       /\ \E tw \in TwitterTokens, nk \in NewsKeys : NewAPIConfig(tw, nk)
    \/ Validate
    \/ HasTwitterAccess
    \/ HasNewsAccess
    \/ \E f \in FieldNames :
          /\ obj # NoObject
          /\ f \in DOMAIN FieldValues(obj.cls)
          /\ \E v \in FieldValues(obj.cls)[f] : SetAttr(f, v)

SpecDirect == Init /\ [][NextDirect]_vars

-----------------------------------------------------------------------------
(* Vocabulary of the properties *)

Ran(block) == \E i \in 1..Len(called) : called[i] = block

IsPrefix(s, q) == Len(s) <= Len(q) /\ \A i \in 1..Len(s) : s[i] = q[i]

Finished == pc \in {"raised", "returned"}

\* the inputs of the storage block, as __init__ resolves them
ProjectIdInput == getenv(env, "FIREBASE_PROJECT_ID", <<>>)
PathInput == getenv(env, "FIREBASE_CREDENTIALS_PATH", DefaultCredentialsPath)
ModeInput == getenv(env, "TRADING_MODE", PAPER)

\* what each block raises when run on the current environment
StorageError == FirebaseFromEnv(env, fs).raised
TradingError == TradingFromEnv(env).raised
APIError == APIFromEnv(env).raised

\* the real number a float denotes lies in the open interval (0, 1)
InsideUnitInterval(x) == x.k = "fin" /\ 0 < x.v /\ x.v < 100
AtMostZero(x) == x.k = "-inf" \/ (x.k = "fin" /\ x.v <= 0)
AtLeastOne(x) == x.k = "inf" \/ (x.k = "fin" /\ x.v >= 100)
Positive(x) == x.k = "inf" \/ (x.k = "fin" /\ x.v > 0)

RangeErrors == {OutOfRangeStopLoss, NonPositiveTakeProfit, NonPositivePositionSize}

-----------------------------------------------------------------------------
(* C1 *)

\* C1: __init__ runs the storage, trading and API blocks in that order and stops
\* at the first one that raises: the error reported is that block's error, no
\* later block has run, no attribute of a later block exists and no aggregate
\* object is returned.
C1_FailFastInOrder ==
    /\ IsPrefix(called, <<"firebase", "trading", "api", "sources">>)
    /\ err # "none" => pc = "raised" /\ ~returned
    /\ Finished =>
        /\ StorageError # "none" =>
              /\ err = StorageError
              /\ called = <<"firebase">>
              /\ DOMAIN self = {}
        /\ StorageError = "none" /\ TradingError # "none" =>
              /\ err = TradingError
              /\ called = <<"firebase", "trading">>
              /\ DOMAIN self = {"firebase"}
        /\ StorageError = "none" /\ TradingError = "none" /\ APIError # "none" =>
              /\ err = APIError
              /\ called = <<"firebase", "trading", "api">>
              /\ DOMAIN self = {"firebase", "trading"}

\* the trading and the API configuration are both invalid: the trading error wins
C1_Witness ==
    /\ pc = "raised"
    /\ StorageError = "none"
    /\ TradingError = UnknownMode
    /\ APIError = InvalidNumericValue
    /\ err = UnknownMode
    /\ ~returned

-----------------------------------------------------------------------------
(* C2 *)

\* C2: when the storage, trading and API blocks all succeed on the environment,
\* construction ends returning an aggregate that holds the three sub-configs, and
\* a construction that fails reports the error of one of the three blocks.
C2_SucceedsWhenSubConfigsDo ==
    /\ (Finished /\ StorageError = "none" /\ TradingError = "none"
            /\ APIError = "none") =>
          /\ pc = "returned"
          /\ returned
          /\ err = "none"
          /\ DOMAIN self = {"firebase", "trading", "api"}
          /\ self["firebase"] = FirebaseFromEnv(env, fs).obj
          /\ self["trading"] = TradingFromEnv(env).obj
          /\ self["api"] = APIFromEnv(env).obj
    /\ pc = "raised" => err \in {StorageError, TradingError, APIError} \ {"none"}

-----------------------------------------------------------------------------
(* C3 *)

\* C3: once the storage block has run with a credential path that does not exist,
\* construction has failed with MissingCredentialFile whatever the project id is
\* (unset, empty or not), and EmptyProjectId is reported only for an existing path.
C3_MissingFileFirst ==
    /\ (Ran("firebase") /\ PathInput \notin fs) =>
          /\ err = MissingCredentialFile
          /\ pc = "raised"
          /\ "firebase" \notin DOMAIN self
    /\ err = EmptyProjectId => PathInput \in fs

\* a missing file together with an empty project id
C3_Witness ==
    /\ Ran("firebase")
    /\ PathInput \notin fs
    /\ ProjectIdInput = <<>>
    /\ err = MissingCredentialFile

-----------------------------------------------------------------------------
(* C4 *)

\* C4: once the storage block has run with an existing credential path and a
\* non-empty project id, the storage config exists, its project_id and
\* credentials_path are the inputs and its collection_name is the default.
C4_StorageFieldsEqualInputs ==
    (Ran("firebase") /\ PathInput \in fs /\ ProjectIdInput # <<>>) =>
        /\ "firebase" \in DOMAIN self
        /\ self["firebase"].project_id = ProjectIdInput
        /\ self["firebase"].credentials_path = PathInput
        /\ self["firebase"].collection_name = DefaultCollectionName
        /\ err \notin {MissingCredentialFile, EmptyProjectId}

C4_Witness ==
    /\ Ran("firebase")
    /\ "FIREBASE_CREDENTIALS_PATH" \in DOMAIN env
    /\ PathInput \in fs
    /\ ProjectIdInput = <<"p">>
    /\ "firebase" \in DOMAIN self
    /\ self["firebase"].project_id = <<"p">>

-----------------------------------------------------------------------------
(* C5 *)

\* C5: validate() raises OutOfRangeStopLoss for every stop loss <= 0 or >= 1,
\* the bounds 0 and 1 included, whatever the other fields hold; for a stop loss
\* strictly inside (0, 1) with a positive take profit and a positive position
\* size it returns normally.
C5_StopLossRange ==
    (res.op = "validate") =>
        /\ (AtMostZero(obj.stop_loss_pct) \/ AtLeastOne(obj.stop_loss_pct)) =>
              res.raised = OutOfRangeStopLoss
        /\ (InsideUnitInterval(obj.stop_loss_pct) /\ Positive(obj.take_profit_pct)
                /\ Positive(obj.max_position_size)) =>
              res.raised = "none" /\ res.returned = "None"

\* the upper bound itself, with the other two fields out of range as well
C5_Witness ==
    /\ res.op = "validate"
    /\ obj.stop_loss_pct = Fin(100)
    /\ obj.take_profit_pct = Fin(0)
    /\ obj.max_position_size = Fin(-100)
    /\ res.raised = OutOfRangeStopLoss

-----------------------------------------------------------------------------
(* C6 *)

\* C6: validate() raises NonPositiveTakeProfit exactly when the stop loss is in
\* (0, 1) and the take profit is <= 0, and NonPositivePositionSize exactly when
\* the stop loss is in (0, 1), the take profit is > 0 and the position size is
\* <= 0; the other fields never make it fail.
C6_FirstViolatedBound ==
    (res.op = "validate") =>
        /\ res.raised = NonPositiveTakeProfit <=>
              (InsideUnitInterval(obj.stop_loss_pct)
                  /\ AtMostZero(obj.take_profit_pct))
        /\ res.raised = NonPositivePositionSize <=>
              (InsideUnitInterval(obj.stop_loss_pct) /\ Positive(obj.take_profit_pct)
                  /\ AtMostZero(obj.max_position_size))
        /\ res.raised \in RangeErrors \cup {"none"}

-----------------------------------------------------------------------------
(* C7 *)

\* C7: construction never enforces the numeric bounds.  Once the trading block
\* has run with a known mode and coercible numbers, the trading config exists
\* and stores the numbers as given, in range or not, and no range error is ever
\* raised by construction.
C7_ConstructionDoesNotValidate ==
    /\ err \notin RangeErrors
    /\ (Ran("trading") /\ ModeInput \in {PAPER, LIVE, BACKTEST}
            /\ float(MaxPositionSizeInput(env)) # Invalid
            /\ float(StopLossInput(env)) # Invalid
            /\ float(TakeProfitInput(env)) # Invalid
            /\ float(ThresholdInput(env)) # Invalid
            /\ int(CooloffInput(env)) # Invalid) =>
          /\ "trading" \in DOMAIN self
          /\ self["trading"].max_position_size = float(MaxPositionSizeInput(env))
          /\ self["trading"].stop_loss_pct = float(StopLossInput(env))
          /\ self["trading"].take_profit_pct = float(TakeProfitInput(env))
          /\ self["trading"].sentiment_threshold = float(ThresholdInput(env))
          /\ self["trading"].cooloff_period = int(CooloffInput(env)).v

\* a stop loss of 1.5 and a take profit of -1 are stored
C7_Witness ==
    /\ Ran("trading")
    /\ "trading" \in DOMAIN self
    /\ self["trading"].stop_loss_pct = Fin(150)
    /\ self["trading"].take_profit_pct = Fin(-100)
    /\ TradingValidate(self["trading"]) = OutOfRangeStopLoss

-----------------------------------------------------------------------------
(* C8 *)

\* C8: the mode is looked up by its exact name, PAPER when the variable is unset.
\* Once the trading block has run, a name among PAPER, LIVE, BACKTEST is the mode
\* of the trading config (when the numbers are coercible), and any other string,
\* the lowercase live included, has failed construction with UnknownMode and left
\* no trading config.
C8_ModeByExactName ==
    Ran("trading") =>
        /\ ("TRADING_MODE" \notin DOMAIN env /\ "trading" \in DOMAIN self) =>
              self["trading"].mode = PAPER
        /\ (ModeInput \in {PAPER, LIVE, BACKTEST} /\ TradingError = "none") =>
              /\ "trading" \in DOMAIN self
              /\ self["trading"].mode = ModeInput
        /\ ModeInput \notin {PAPER, LIVE, BACKTEST} =>
              /\ err = UnknownMode
              /\ pc = "raised"
              /\ "trading" \notin DOMAIN self

\* TRADING_MODE=live is rejected
C8_Witness ==
    /\ Ran("trading")
    /\ ModeInput = <<"l", "i", "v", "e">>
    /\ err = UnknownMode
    /\ "trading" \notin DOMAIN self

-----------------------------------------------------------------------------
(* C9 *)

\* C9: once the API block has run with coercible integers, the API config exists;
\* a credential is None exactly when its variable is unset; has_twitter_access is
\* true exactly when TWITTER_BEARER_TOKEN is set and not empty, has_news_access
\* exactly when NEWS_API_KEY is set and not empty; an unset variable raises nothing.
C9_AccessIffCredential ==
    (Ran("api") /\ APIError = "none") =>
        /\ "api" \in DOMAIN self
        /\ err \in {"none", MissingAttribute}
        /\ self["api"].twitter_bearer_token = None <=>
              "TWITTER_BEARER_TOKEN" \notin DOMAIN env
        /\ self["api"].news_api_key = None <=> "NEWS_API_KEY" \notin DOMAIN env
        /\ has_twitter_access(self["api"]) <=>
              /\ "TWITTER_BEARER_TOKEN" \in DOMAIN env
              /\ env["TWITTER_BEARER_TOKEN"] # <<>>
        /\ has_news_access(self["api"]) <=>
              /\ "NEWS_API_KEY" \in DOMAIN env
              /\ env["NEWS_API_KEY"] # <<>>

\* an empty Twitter token beside a news key: no Twitter access, news access
C9_Witness ==
    /\ Ran("api")
    /\ "api" \in DOMAIN self
    /\ "TWITTER_BEARER_TOKEN" \in DOMAIN env
    /\ env["TWITTER_BEARER_TOKEN"] = <<>>
    /\ ~has_twitter_access(self["api"])
    /\ has_news_access(self["api"])

-----------------------------------------------------------------------------
(* C10 *)

Differing(o, q) == {f \in DOMAIN o : o[f] # q[f]}

====
